---- MODULE Spec2Model ----
(***************************************************************************)
(* Model of the discipline reconciliation engine of jira-sprint-analysis:  *)
(* jira_analysis/analyzer.py (calculate_percentage_diff,                   *)
(* calculate_improvement, process_discipline_data).                        *)
(*                                                                         *)
(* Numbers.  A Python float is modelled as an exact rational <<n, d>>      *)
(* with d > 0 in lowest terms.  NaN (pandas' null: None and NaN are both   *)
(* "isna") is <<0, 0>>.  A raised ZeroDivisionError is <<1, 0>> and        *)
(* propagates through every later operation of the same call.              *)
(***************************************************************************)
EXTENDS Integers, Sequences, FiniteSets, TLC

\* ------------------------------------------------------------------ bounds
MaxRows == 2
MaxVal == 1
NumKeys == 2
MaxTotal == 3
MaxWideRows == 1
MaxMtime == 1

\* ------------------------------------------------------- float arithmetic
NaN == <<0, 0>>
ZeroDivisionError == <<1, 0>>

Abs(n) == IF n < 0 THEN -n ELSE n

RECURSIVE GCD(_, _)
GCD(a, b) == IF b = 0 THEN a ELSE GCD(b, a % b)

\* the rational n/d (d # 0) in lowest terms with a positive denominator
Rat(n, d) ==
    LET g == GCD(Abs(n), Abs(d))
        s == IF d < 0 THEN -1 ELSE 1
    IN  <<(s * n) \div g, (s * d) \div g>>

FromInt(n) == <<n, 1>>

IsRaised(x) == x = ZeroDivisionError
isna(x) == x = NaN
notna(x) == ~isna(x)
IsFinite(x) == x[2] > 0

\* Python's x == 0 / x != 0 on floats: NaN compares unequal to everything
EqZero(x) == IsFinite(x) /\ x[1] = 0
\* Python's x == y on floats
FEq(x, y) == IsFinite(x) /\ IsFinite(y) /\ x = y
\* Python's x > y and x < y: every comparison with NaN is False
FGt(x, y) == IsFinite(x) /\ IsFinite(y) /\ x[1] * y[2] > y[1] * x[2]
FLt(x, y) == FGt(y, x)
FGe(x, y) == IsFinite(x) /\ IsFinite(y) /\ x[1] * y[2] >= y[1] * x[2]

FAdd(x, y) ==
    IF IsRaised(x) \/ IsRaised(y) THEN ZeroDivisionError
    ELSE IF isna(x) \/ isna(y) THEN NaN
    ELSE Rat(x[1] * y[2] + y[1] * x[2], x[2] * y[2])

FSub(x, y) ==
    IF IsRaised(x) \/ IsRaised(y) THEN ZeroDivisionError
    ELSE IF isna(x) \/ isna(y) THEN NaN
    ELSE Rat(x[1] * y[2] - y[1] * x[2], x[2] * y[2])

FMul(x, y) ==
    IF IsRaised(x) \/ IsRaised(y) THEN ZeroDivisionError
    ELSE IF isna(x) \/ isna(y) THEN NaN
    ELSE Rat(x[1] * y[1], x[2] * y[2])

\* Python float division: a zero divisor raises, whatever the dividend
FDiv(x, y) ==
    IF IsRaised(x) \/ IsRaised(y) THEN ZeroDivisionError
    ELSE IF EqZero(y) THEN ZeroDivisionError
    ELSE IF isna(x) \/ isna(y) THEN NaN
    ELSE Rat(x[1] * y[2], x[2] * y[1])

FAbs(x) == IF IsFinite(x) THEN <<Abs(x[1]), x[2]>> ELSE x

\* builtin max(a, b) / min(a, b): the first argument is kept unless the
\* second compares strictly greater / smaller (so max(0, nan) is 0)
PyMax(a, b) == IF IsRaised(a) \/ IsRaised(b) THEN ZeroDivisionError
               ELSE IF FGt(b, a) THEN b ELSE a
PyMin(a, b) == IF IsRaised(a) \/ IsRaised(b) THEN ZeroDivisionError
               ELSE IF FLt(b, a) THEN b ELSE a

\* builtin round(x, 1): nearest tenth, ties to the even tenth
Round1(x) ==
    IF ~IsFinite(x) THEN x
    ELSE LET n10 == 10 * x[1]
             f == n10 \div x[2]
             r == n10 - f * x[2]
             t == IF 2 * r > x[2] THEN f + 1
                  ELSE IF 2 * r < x[2] THEN f
                  ELSE IF f % 2 = 0 THEN f ELSE f + 1
         IN  Rat(t, 10)

Hundred == FromInt(100)
Zero == FromInt(0)

\* ------------------------------------------------------------ calculators
\* mutant: the legacy sign convention, (original - actual) / original
calculate_percentage_diff_Legacy(original, actual) ==
    IF isna(original) \/ isna(actual) THEN Zero
    ELSE IF ~EqZero(original)
         THEN FMul(FDiv(FSub(original, actual), original), Hundred)
         ELSE Zero

calculate_percentage_diff(original, actual) ==
    IF isna(original) \/ isna(actual) THEN Zero
    ELSE IF ~EqZero(original)
         THEN FMul(FDiv(FSub(actual, original), original), Hundred)
         ELSE Zero

\* calculate_improvement with one of its steps changed; the mutants below
\* each switch one flag off
ImprovementVariant(original_total, ai_total, actual_total,
                   guardActual, denomActual, floorAtZero, perfectGuard) ==
    IF EqZero(original_total) \/ (guardActual /\ EqZero(actual_total))
    THEN [original_vs_actual |-> Zero, ai_vs_actual |-> Zero,
          overall_improvement |-> Zero]
    ELSE
      LET denom == IF denomActual THEN actual_total ELSE original_total
          original_deviation ==
              FMul(FDiv(FSub(original_total, actual_total), denom), Hundred)
          ai_deviation ==
              FMul(FDiv(FSub(ai_total, actual_total), denom), Hundred)
          original_error == FAbs(original_deviation)
          ai_error == FAbs(ai_deviation)
          error_reduction == FSub(original_error, ai_error)
          raw == FMul(FDiv(error_reduction, original_error), Hundred)
          improvement ==
              IF perfectGuard /\ EqZero(original_error) THEN Zero
              ELSE PyMin(Hundred, IF floorAtZero THEN PyMax(Zero, raw) ELSE raw)
      IN  [original_vs_actual |-> original_deviation,
           ai_vs_actual |-> ai_deviation,
           overall_improvement |-> improvement]

\* mutant: the early return tests original_total only
calculate_improvement_NoActualGuard(original_total, ai_total, actual_total) ==
    ImprovementVariant(original_total, ai_total, actual_total,
                       FALSE, TRUE, TRUE, TRUE)

\* mutant: the deviations are taken relative to original_total
calculate_improvement_OriginalDenominator(original_total, ai_total, actual_total) ==
    ImprovementVariant(original_total, ai_total, actual_total,
                       TRUE, FALSE, TRUE, TRUE)

\* mutant: the improvement is capped at 100 but not floored at 0
calculate_improvement_NoFloor(original_total, ai_total, actual_total) ==
    ImprovementVariant(original_total, ai_total, actual_total,
                       TRUE, TRUE, FALSE, TRUE)

\* mutant: no special case for original_error == 0
calculate_improvement_NoPerfectGuard(original_total, ai_total, actual_total) ==
    ImprovementVariant(original_total, ai_total, actual_total,
                       TRUE, TRUE, TRUE, FALSE)

\* mutant: the error reduction is taken the wrong way round
calculate_improvement_SwappedReduction(original_total, ai_total, actual_total) ==
    LET r == ImprovementVariant(original_total, ai_total, actual_total,
                                TRUE, TRUE, TRUE, TRUE)
        original_error == FAbs(r.original_vs_actual)
        ai_error == FAbs(r.ai_vs_actual)
    IN  IF EqZero(original_total) \/ EqZero(actual_total)
           \/ EqZero(original_error)
        THEN r
        ELSE [r EXCEPT !.overall_improvement =
                PyMin(Hundred,
                      PyMax(Zero, FMul(FDiv(FSub(ai_error, original_error),
                                            original_error), Hundred)))]

calculate_improvement(original_total, ai_total, actual_total) ==
    IF EqZero(original_total) \/ EqZero(actual_total)
    THEN [original_vs_actual |-> Zero, ai_vs_actual |-> Zero,
          overall_improvement |-> Zero]
    ELSE
      LET original_deviation ==
              FMul(FDiv(FSub(original_total, actual_total), actual_total), Hundred)
          ai_deviation ==
              FMul(FDiv(FSub(ai_total, actual_total), actual_total), Hundred)
          original_error == FAbs(original_deviation)
          ai_error == FAbs(ai_deviation)
          error_reduction == FSub(original_error, ai_error)
          improvement ==
              IF EqZero(original_error) THEN Zero
              ELSE PyMin(Hundred,
                         PyMax(Zero, FMul(FDiv(error_reduction, original_error),
                                          Hundred)))
      IN  [original_vs_actual |-> original_deviation,
           ai_vs_actual |-> ai_deviation,
           overall_improvement |-> improvement]

\* ------------------------------------------------------------ ticket table
\* ticket keys as they stand after the loader's blank-key filter
Keys == 1..NumKeys

\* a cell of an estimate column: empty (NaN) or a number of hours
Cells == {NaN} \cup {FromInt(n) : n \in 0..MaxVal}

\* a cell holding text that float() cannot parse
TextCell == <<2, 0>>

\* two of the five disciplines of the driver's column_mapping
column_mapping ==
    [BE |-> [original |-> "BE Dev Original Estimate based on old way",
             ai |-> "BE Dev Revised Estimate based on AI",
             actual |-> "BE Dev Actual Time based on AI"],
     BA |-> [original |-> "BA Original Estimate based on old way",
             ai |-> "BA Revised Estimate based on AI",
             actual |-> "BA Actual Time based on AI"]]

Disciplines == DOMAIN column_mapping

\* the columns a mapping names
MappedColumns(m) == {m.original, m.ai, m.actual}

\* the estimate columns of the table process_discipline_data is called on
\* by itself: the BE columns only, as in the unit tests, so that the BA
\* mapping names columns the table does not have
DataColumns == MappedColumns(column_mapping.BE)

\* the columns of such a table; an empty table has them too
TableColumns == {"Key"} \cup DataColumns

\* one row of the DataFrame: row["Key"] and row[<estimate column>]
Rows ==
    {[x \in {"Key"} \cup DataColumns |-> IF x = "Key" THEN k ELSE c[x]] :
        k \in Keys, c \in [DataColumns -> Cells]}

\* the DataFrame: rows in file order; nothing makes the keys unique
Tables == UNION {[1..n -> Rows] : n \in 0..MaxRows}

\* tables whose estimate cells may hold text
TextRows ==
    {[x \in {"Key"} \cup DataColumns |-> IF x = "Key" THEN k ELSE c[x]] :
        k \in Keys, c \in [DataColumns -> {NaN, FromInt(MaxVal), TextCell}]}

TextTables == UNION {[1..n -> TextRows] : n \in 0..MaxRows}

\* an empty cell of the Assignee column (a null of a text column)
NullCell == "<null>"

\* tables that have an Assignee column, filled in or empty row by row
AssigneeRows ==
    {[x \in {"Key", "Assignee"} \cup DataColumns |->
         IF x = "Key" THEN k ELSE IF x = "Assignee" THEN a ELSE c[x]] :
        k \in Keys, a \in {"alice", NullCell},
        c \in [DataColumns -> {NaN, FromInt(MaxVal)}]}

AssigneeTables == UNION {[1..n -> AssigneeRows] : n \in 0..MaxRows}

\* the order in which the drivers go through column_mapping
disciplines == <<"BE", "BA">>

\* the estimate columns of every discipline: the table the drivers load
WideColumns == UNION {MappedColumns(column_mapping[d]) : d \in Disciplines}

WideRows ==
    {[x \in {"Key"} \cup WideColumns |-> IF x = "Key" THEN k ELSE c[x]] :
        k \in Keys, c \in [WideColumns -> {NaN, FromInt(MaxVal)}]}

WideTables == UNION {[1..n -> WideRows] : n \in 0..MaxWideRows}

\* float(x) of a numeric cell is the cell's value (float(nan) is nan);
\* float(x) of a text cell raises ValueError, see CanFloat
float(x) == x

CanFloat(x) == x # TextCell

\* the exceptions that leave process_discipline_data; names is what the
\* exception's message tells: KeyError(<column label>),
\* ValueError("could not convert string to float: <text>")
NoException == [type |-> "none", names |-> {}]
KeyError == [type |-> "KeyError", names |-> {"column"}]
ValueError == [type |-> "ValueError", names |-> {"value"}]

\* row[label] succeeds for the three mapped labels
Resolvable(row, m) == MappedColumns(m) \subseteq DOMAIN row

\* row.get(label, default)
RowGet(row, label, default) ==
    IF label \in DOMAIN row THEN row[label] ELSE default

\* ---------------------------------------------- process_discipline_data
\* mutant: presence tested by truthiness, so a recorded 0 reads as absent
has_original_Truthy(row, m) ==
    notna(row[m.original]) /\ ~EqZero(row[m.original])

has_original(row, m) == notna(row[m.original])

\* mutant: an AI estimate of any discipline counts
has_ai_AnyDiscipline(row, m) ==
    \E d \in Disciplines :
       /\ column_mapping[d].ai \in DOMAIN row
       /\ notna(row[column_mapping[d].ai])

has_ai(row, m) == notna(row[m.ai])
has_actual(row, m) == notna(row[m.actual])

InitialResult ==
    [x \in {"Complete Data Points", "Partial Data Points",
            "Missing Data Points", "Original Estimate (Total)",
            "AI Estimate (Total)", "Actual Time (Total)",
            "Original vs Actual (%)", "AI vs Actual (%)",
            "Estimation Improvement (%)", "Missing Data Details"} |->
        IF x \in {"Complete Data Points", "Partial Data Points",
                  "Missing Data Points"} THEN 0
        ELSE IF x = "Missing Data Details" THEN <<>>
        ELSE Zero]

\* mutant: Values also lists the fields the row lacks
MissingDetail_AllValues(row, m) ==
    [Ticket |-> row["Key"],
     Assignee |-> RowGet(row, "Assignee", "Unassigned"),
     MissingFields |->
         (IF ~has_original(row, m) THEN <<"Original Estimate">> ELSE <<>>) \o
         (IF ~has_ai(row, m) THEN <<"AI Estimate">> ELSE <<>>) \o
         (IF ~has_actual(row, m) THEN <<"Actual Time">> ELSE <<>>),
     PresentFields |->
         (IF has_original(row, m) THEN <<"Original Estimate">> ELSE <<>>) \o
         (IF has_ai(row, m) THEN <<"AI Estimate">> ELSE <<>>) \o
         (IF has_actual(row, m) THEN <<"Actual Time">> ELSE <<>>),
     Values |->
         [f \in {"Original Estimate", "AI Estimate", "Actual Time"} |->
             IF f = "Original Estimate" THEN float(row[m.original])
             ELSE IF f = "AI Estimate" THEN float(row[m.ai])
             ELSE float(row[m.actual])]]

\* the record of a partial row (the body of the else branch of the loop)
MissingDetail(row, m) ==
    LET ho == has_original(row, m)
        ha == has_ai(row, m)
        ht == has_actual(row, m)
        missing_fields ==
            (IF ~ho THEN <<"Original Estimate">> ELSE <<>>) \o
            (IF ~ha THEN <<"AI Estimate">> ELSE <<>>) \o
            (IF ~ht THEN <<"Actual Time">> ELSE <<>>)
        present_fields ==
            (IF ho THEN <<"Original Estimate">> ELSE <<>>) \o
            (IF ha THEN <<"AI Estimate">> ELSE <<>>) \o
            (IF ht THEN <<"Actual Time">> ELSE <<>>)
        values ==
            [f \in {present_fields[j] : j \in DOMAIN present_fields} |->
                IF f = "Original Estimate" THEN float(row[m.original])
                ELSE IF f = "AI Estimate" THEN float(row[m.ai])
                ELSE float(row[m.actual])]
    IN  [Ticket |-> row["Key"],
         Assignee |-> RowGet(row, "Assignee", "Unassigned"),
         MissingFields |-> missing_fields,
         PresentFields |-> present_fields,
         Values |-> values]

\* mutant: a new record goes to the front of the detail list
CategorizeRow_Prepend(acc, row, m) ==
    LET ho == has_original(row, m)
        ha == has_ai(row, m)
        ht == has_actual(row, m)
    IN  IF ho \/ ha \/ ht
        THEN IF ho /\ ha /\ ht
             THEN [acc EXCEPT !.complete = @ \cup {row["Key"]}]
             ELSE LET detail == MissingDetail(row, m)
                  IN  [acc EXCEPT
                         !.partial = @ \cup {row["Key"]},
                         !.details = IF DOMAIN detail.Values # {}
                                     THEN <<detail>> \o @ ELSE @]
        ELSE [acc EXCEPT !.missing = @ \cup {row["Key"]}]

\* mutant: a row counts as complete without its actual time
CategorizeRow_NoActual(acc, row, m) ==
    LET ho == has_original(row, m)
        ha == has_ai(row, m)
        ht == has_actual(row, m)
    IN  IF ho \/ ha \/ ht
        THEN IF ho /\ ha
             THEN [acc EXCEPT !.complete = @ \cup {row["Key"]}]
             ELSE LET detail == MissingDetail(row, m)
                  IN  [acc EXCEPT
                         !.partial = @ \cup {row["Key"]},
                         !.details = IF DOMAIN detail.Values # {}
                                     THEN Append(@, detail) ELSE @]
        ELSE [acc EXCEPT !.missing = @ \cup {row["Key"]}]

\* one iteration of the first pass; acc holds the three key sets and the
\* detail list
CategorizeRow(acc, row, m) ==
    LET ho == has_original(row, m)
        ha == has_ai(row, m)
        ht == has_actual(row, m)
    IN  IF ho \/ ha \/ ht
        THEN IF ho /\ ha /\ ht
             THEN [acc EXCEPT !.complete = @ \cup {row["Key"]}]
             ELSE LET detail == MissingDetail(row, m)
                  IN  [acc EXCEPT
                         !.partial = @ \cup {row["Key"]},
                         !.details = IF DOMAIN detail.Values # {}
                                     THEN Append(@, detail) ELSE @]
        ELSE [acc EXCEPT !.missing = @ \cup {row["Key"]}]

\* mutant: the second pass credits every row that has an original estimate,
\* as the legacy variant does
SumRow_CreditOriginal(res, row, m, complete) ==
    IF row["Key"] \in complete
    THEN [res EXCEPT
            !["Original Estimate (Total)"] = FAdd(@, float(row[m.original])),
            !["AI Estimate (Total)"] = FAdd(@, float(row[m.ai])),
            !["Actual Time (Total)"] = FAdd(@, float(row[m.actual]))]
    ELSE IF notna(row[m.original])
    THEN [res EXCEPT
            !["Original Estimate (Total)"] = FAdd(@, float(row[m.original]))]
    ELSE res

\* mutant: the second pass assigns the row's values instead of adding them
SumRow_LastWins(res, row, m, complete) ==
    IF row["Key"] \in complete
    THEN [res EXCEPT
            !["Original Estimate (Total)"] = float(row[m.original]),
            !["AI Estimate (Total)"] = float(row[m.ai]),
            !["Actual Time (Total)"] = float(row[m.actual])]
    ELSE res

\* one iteration of the second pass
SumRow(res, row, m, complete) ==
    IF row["Key"] \in complete
    THEN [res EXCEPT
            !["Original Estimate (Total)"] = FAdd(@, float(row[m.original])),
            !["AI Estimate (Total)"] = FAdd(@, float(row[m.ai])),
            !["Actual Time (Total)"] = FAdd(@, float(row[m.actual]))]
    ELSE res

\* the counts and the percentages, computed after the two passes
Finish(res, complete, partial, missing) ==
    LET r1 == [res EXCEPT
                 !["Complete Data Points"] = Cardinality(complete),
                 !["Partial Data Points"] = Cardinality(partial),
                 !["Missing Data Points"] = Cardinality(missing)]
        improvements ==
            calculate_improvement(r1["Original Estimate (Total)"],
                                  r1["AI Estimate (Total)"],
                                  r1["Actual Time (Total)"])
    IN  IF r1["Complete Data Points"] > 0
        THEN [r1 EXCEPT
                !["Original vs Actual (%)"] =
                    Round1(improvements.original_vs_actual),
                !["AI vs Actual (%)"] = Round1(improvements.ai_vs_actual),
                !["Estimation Improvement (%)"] =
                    Round1(improvements.overall_improvement)]
        ELSE r1

\* the whole first pass over the rows of t, starting from acc
RECURSIVE FirstPass(_, _, _)
FirstPass(acc, t, m) ==
    IF t = <<>> THEN acc
    ELSE FirstPass(CategorizeRow(acc, Head(t), m), Tail(t), m)

\* the whole second pass over the rows of t, starting from res
RECURSIVE SecondPass(_, _, _, _)
SecondPass(res, t, m, complete) ==
    IF t = <<>> THEN res
    ELSE SecondPass(SumRow(res, Head(t), m, complete), Tail(t), m, complete)

\* what process_discipline_data(t, m) returns when it raises nothing
process_discipline_data(t, m) ==
    LET acc == FirstPass([complete |-> {}, partial |-> {}, missing |-> {},
                          details |-> <<>>], t, m)
        res1 == [InitialResult EXCEPT !["Missing Data Details"] = acc.details]
        res2 == SecondPass(res1, t, m, acc.complete)
    IN  Finish(res2, acc.complete, acc.partial, acc.missing)

\* what the first pass raises on this row: row[original_col] of line 100
\* raises KeyError for an unknown column; float() of lines 119-135 raises
\* ValueError on a present text field of a row that is not complete
RowRaises1(row, m) ==
    IF ~Resolvable(row, m) THEN KeyError
    ELSE IF /\ ~(has_original(row, m) /\ has_ai(row, m) /\ has_actual(row, m))
            /\ \E c \in MappedColumns(m) : notna(row[c]) /\ ~CanFloat(row[c])
         THEN ValueError
         ELSE NoException

\* what the second pass raises on this row: float() of lines 158-160
RowRaises2(row, m, complete) ==
    IF row["Key"] \in complete /\ \E c \in MappedColumns(m) : ~CanFloat(row[c])
    THEN ValueError
    ELSE NoException

\* a float division by zero that pandas answers with inf
Inf == <<3, 0>>

\* ------------------------------------------------- app.py, the driver
\* lines 114-117: detail["Discipline"] = discipline on every record of the
\* list, which is the list held by the result
TagDetails(details, d) ==
    [j \in DOMAIN details |-> details[j] @@ [Discipline |-> d]]

\* app.py line 126 for one row of analysis_df: a pandas division (0/0 is
\* NaN, x/0 is inf, nothing is raised), times 100, rounded to one decimal
ActualVsOriginal(entry) ==
    LET actual == entry["Actual Time (Total)"]
        original == entry["Original Estimate (Total)"]
    IN  IF ~IsFinite(actual) \/ ~IsFinite(original) THEN NaN
        ELSE IF EqZero(original)
             THEN (IF EqZero(actual) THEN NaN ELSE Inf)
             ELSE Round1(FMul(FDiv(actual, original), Hundred))

\* --------------------------------- analyze_estimates.py, the legacy script
\* builtin round(x, 2)
Round2(x) ==
    IF ~IsFinite(x) THEN x
    ELSE LET n100 == 100 * x[1]
             f == n100 \div x[2]
             r == n100 - f * x[2]
             t == IF 2 * r > x[2] THEN f + 1
                  ELSE IF 2 * r < x[2] THEN f
                  ELSE IF f % 2 = 0 THEN f ELSE f + 1
         IN  Rat(t, 100)

\* analyze_estimates.calculate_percentage_diff
legacy_calculate_percentage_diff(original, actual) ==
    IF EqZero(original) THEN Zero
    ELSE FMul(FDiv(FSub(original, actual), original), Hundred)

LegacyInitialResult ==
    [x \in {"Complete Data Points", "Missing Data Points",
            "Original Estimate (Total)", "AI Estimate (Total)",
            "Actual Time (Total)"} |->
        IF x \in {"Complete Data Points", "Missing Data Points"} THEN 0
        ELSE Zero]

\* mutant: a row without an original estimate is counted as incomplete
LegacyRow_CountAll(res, row, m) ==
    IF notna(row[m.original]) /\ notna(row[m.ai]) /\ notna(row[m.actual])
    THEN [res EXCEPT
            !["Complete Data Points"] = @ + 1,
            !["Original Estimate (Total)"] = FAdd(@, float(row[m.original])),
            !["AI Estimate (Total)"] = FAdd(@, float(row[m.ai])),
            !["Actual Time (Total)"] = FAdd(@, float(row[m.actual]))]
    ELSE [res EXCEPT !["Missing Data Points"] = @ + 1]

\* mutant: the AI estimate of a complete row is not added
LegacyRow_SkipAi(res, row, m) ==
    IF notna(row[m.original])
    THEN IF notna(row[m.ai]) /\ notna(row[m.actual])
         THEN [res EXCEPT
                 !["Complete Data Points"] = @ + 1,
                 !["Original Estimate (Total)"] =
                     FAdd(@, float(row[m.original])),
                 !["Actual Time (Total)"] = FAdd(@, float(row[m.actual]))]
         ELSE [res EXCEPT
                 !["Missing Data Points"] = @ + 1,
                 !["Original Estimate (Total)"] =
                     FAdd(@, float(row[m.original]))]
    ELSE res

\* mutant: an incomplete row's original estimate is not added
LegacyRow_NoPartialOriginal(res, row, m) ==
    IF notna(row[m.original])
    THEN IF notna(row[m.ai]) /\ notna(row[m.actual])
         THEN [res EXCEPT
                 !["Complete Data Points"] = @ + 1,
                 !["Original Estimate (Total)"] =
                     FAdd(@, float(row[m.original])),
                 !["AI Estimate (Total)"] = FAdd(@, float(row[m.ai])),
                 !["Actual Time (Total)"] = FAdd(@, float(row[m.actual]))]
         ELSE [res EXCEPT !["Missing Data Points"] = @ + 1]
    ELSE res

\* one iteration of the loop of analyze_estimates.process_discipline_data
LegacyRow(res, row, m) ==
    IF notna(row[m.original])
    THEN IF notna(row[m.ai]) /\ notna(row[m.actual])
         THEN [res EXCEPT
                 !["Complete Data Points"] = @ + 1,
                 !["Original Estimate (Total)"] =
                     FAdd(@, float(row[m.original])),
                 !["AI Estimate (Total)"] = FAdd(@, float(row[m.ai])),
                 !["Actual Time (Total)"] = FAdd(@, float(row[m.actual]))]
         ELSE [res EXCEPT
                 !["Missing Data Points"] = @ + 1,
                 !["Original Estimate (Total)"] =
                     FAdd(@, float(row[m.original]))]
    ELSE res

RECURSIVE LegacyLoop(_, _, _)
LegacyLoop(res, t, m) ==
    IF t = <<>> THEN res
    ELSE LegacyLoop(LegacyRow(res, Head(t), m), Tail(t), m)

\* analyze_estimates.process_discipline_data
legacy_process_discipline_data(t, m) == LegacyLoop(LegacyInitialResult, t, m)

\* lines 223-228
overall_completion_rate(total_complete_tickets, total_incomplete_tickets) ==
    IF total_complete_tickets + total_incomplete_tickets > 0
    THEN FMul(FDiv(FromInt(total_complete_tickets),
                   FromInt(total_complete_tickets + total_incomplete_tickets)),
              Hundred)
    ELSE Zero

\* ------------------------------------------------------ the two loaders
\* a Key cell of the sheet that is empty (read as NaN), and one that
\* holds the empty string; the keys proper are 1..NumKeys
NullKey == -1
EmptyKey == 0

\* sheets as read_excel returns them: any row may lack its key
RawRows ==
    {[x \in {"Key"} \cup WideColumns |->
         IF x = "Key" THEN k ELSE FromInt(MaxVal)] :
        k \in Keys \cup {NullKey, EmptyKey}}

RawTables == UNION {[1..n -> RawRows] : n \in 0..MaxRows}

\* mutant: only null keys are filtered out
KeepKeyed_NotNullOnly(t) ==
    SelectSeq(t, LAMBDA row : row["Key"] # NullKey)

\* df[df["Key"].notna() & (df["Key"] != "")]
KeepKeyed(t) ==
    SelectSeq(t, LAMBDA row : row["Key"] # NullKey /\ row["Key"] # EmptyKey)

\* ------------------------------------------------------------- utils.py
FileNotFoundError == [type |-> "FileNotFoundError", names |-> {}]
FileExistsError == [type |-> "FileExistsError", names |-> {}]

\* file names of the input directory: a leading dot, a stem, an extension
FileNames ==
    {[dot |-> FALSE, stem |-> "old", ext |-> "xlsx"],
     [dot |-> FALSE, stem |-> "new", ext |-> "xlsx"],
     [dot |-> TRUE, stem |-> "lock", ext |-> "xlsx"],
     [dot |-> FALSE, stem |-> "notes", ext |-> "csv"]}

\* a directory listing: the files present, each with its mtime
InputDirs ==
    UNION {[present -> 0..MaxMtime] : present \in SUBSET FileNames}

NoFile == [dot |-> FALSE, stem |-> "", ext |-> ""]

NoFiles == [input |-> <<>>, directory |-> "absent", fn |-> "none",
            ncalls |-> 0, ret |-> NoFile]

\* glob.glob("input/*.xlsx"): the names that end in .xlsx; the * of glob
\* does not match a leading dot
Glob(input) == {f \in DOMAIN input : ~f.dot /\ f.ext = "xlsx"}

\* mutant: the least recently modified file
find_input_file_Oldest(input) ==
    LET files == Glob(input)
    IN  IF files = {} THEN {[raised |-> FileNotFoundError, ret |-> NoFile]}
        ELSE {[raised |-> NoException, ret |-> f] :
                 f \in {g \in files :
                           \A h \in files : input[g] <= input[h]}}

\* utils.find_input_file: the outcomes it can have; max() returns the
\* first greatest file in glob's order, which is the directory's order
find_input_file(input) ==
    LET files == Glob(input)
    IN  IF files = {} THEN {[raised |-> FileNotFoundError, ret |-> NoFile]}
        ELSE {[raised |-> NoException, ret |-> f] :
                 f \in {g \in files :
                           \A h \in files : input[g] >= input[h]}}

\* mutant: os.makedirs(directory) without exist_ok
ensure_directory_NoExistOk(directory) ==
    IF directory = "absent"
    THEN [raised |-> NoException, directory |-> "dir"]
    ELSE [raised |-> FileExistsError, directory |-> directory]

\* utils.ensure_directory: os.makedirs(directory, exist_ok=True) on a path
\* that is absent, a directory or a regular file
ensure_directory(directory) ==
    IF directory = "file"
    THEN [raised |-> FileExistsError, directory |-> directory]
    ELSE [raised |-> NoException, directory |-> "dir"]

\* ------------------------------------------------------- result objects
\* no result dict has been allocated yet
NoCalls == [allocated |-> 0, result_id |-> 0, returns |-> <<>>]

\* ------------------------------------------------------------------ state
VARIABLES
    df,                 \* the ticket table handed to process_discipline_data
    discipline_mapping, \* the mapping handed to process_discipline_data
    pc,                 \* position: "call", "pass1", "pass2", "returned",
                        \*           or "calc" / "calc_done" for a direct
                        \*           call of a calculator
    i,                  \* index of the row the running pass is at
    complete_tickets, partial_tickets, missing_tickets,
    result,             \* the result dict being built, then returned
    raised,             \* the exception that left the call, if any
    calc_fn,            \* the calculator called directly
    calc_args,          \* its arguments <<original, ai, actual>>
    calc_ret,           \* what it returned
    app,                \* the locals of app.py's "Process Analysis" run
    legacy,             \* the module-level names of analyze_estimates.py
    raw,                \* the sheet as read_excel returned it
    calls,              \* the result objects allocated and returned so far
    fs                  \* the file system the utilities see, and their call

vars == <<df, discipline_mapping, pc, i, complete_tickets, partial_tickets,
          missing_tickets, result, raised, app, legacy, calc_fn, calc_args, calc_ret,
          raw, calls, fs>>

\* the arguments the calculators are called with: totals of hours, the
\* multiples of one half in 0..MaxTotal, and NaN (a total that summed an
\* empty cell, or None)
CalcVals == {NaN} \cup {Rat(n, 2) : n \in 0..(2 * MaxTotal)}

NoRet == [none |-> TRUE]

\* a call of process_discipline_data(df, mapping) about to start
InitProcess ==
    /\ df \in Tables \cup TextTables \cup AssigneeTables
    /\ raw = df
    /\ fs = NoFiles
    /\ discipline_mapping \in {column_mapping[d] : d \in Disciplines}
    /\ pc = "call"
    /\ calc_fn = "none"
    /\ calc_args = <<Zero, Zero, Zero>>

\* a direct call of a calculator about to start
InitCalc ==
    /\ df = <<>>
    /\ raw = df
    /\ fs = NoFiles
    /\ discipline_mapping = column_mapping.BE
    /\ pc = "calc"
    /\ calc_fn = "none"
    /\ calc_args \in CalcVals \X CalcVals \X CalcVals

\* app.py's locals before line 92; the six totals are unbound until the
\* first iteration assigns them and are not read before
AppInitial ==
    [k |-> 1,
     total_unique_tickets |-> 0,
     total_original_estimate |-> Zero,
     total_ai_estimate |-> Zero,
     total_actual_time |-> Zero,
     total_complete |-> 0,
     total_partial |-> 0,
     total_missing |-> 0,
     discipline_data |-> InitialResult,
     analysis_results |-> <<>>,
     all_missing_data |-> <<>>,
     actual_vs_original |-> <<>>]

\* analyze_estimates.py's names after line 184
LegacyInitial ==
    [k |-> 1,
     total_original_estimate |-> Zero,
     total_ai_estimate |-> Zero,
     total_actual_time |-> Zero,
     total_complete_tickets |-> 0,
     total_incomplete_tickets |-> 0,
     analysis_results |-> <<>>,
     overall_completion_rate |-> Zero,
     discipline_data |-> LegacyInitialResult]

\* app.py with the table loaded and "Process Analysis" pressed, or
\* analyze_estimates.py with the table loaded
InitDriver ==
    /\ df \in WideTables
    /\ raw = df
    /\ fs = NoFiles
    /\ discipline_mapping = column_mapping.BE
    /\ pc \in {"app", "legacy_loop"}
    /\ calc_fn = "none"
    /\ calc_args = <<Zero, Zero, Zero>>

\* a loader that has read the sheet and is about to filter it (app.py
\* line 43, analyze_estimates.py line 31); df is not bound yet
InitLoad ==
    /\ raw \in RawTables
    /\ df = <<>>
    /\ fs = NoFiles
    /\ discipline_mapping = column_mapping.BE
    /\ pc = "load"
    /\ calc_fn = "none"
    /\ calc_args = <<Zero, Zero, Zero>>

\* a utility of utils.py about to be called on some file system
InitUtil ==
    /\ df = <<>>
    /\ raw = df
    /\ fs \in [input : InputDirs, directory : {"absent", "dir", "file"},
               fn : {"none"}, ncalls : {0}, ret : {NoFile}]
    /\ discipline_mapping = column_mapping.BE
    /\ pc = "util"
    /\ calc_fn = "none"
    /\ calc_args = <<Zero, Zero, Zero>>

Init ==
    /\ InitProcess \/ InitCalc \/ InitDriver \/ InitLoad \/ InitUtil
    /\ calls = NoCalls
    /\ app = AppInitial
    /\ legacy = LegacyInitial
    /\ i = 1
    /\ complete_tickets = {}
    /\ partial_tickets = {}
    /\ missing_tickets = {}
    /\ result = InitialResult
    /\ raised = NoException
    /\ calc_ret = NoRet

calcUnchanged ==
    UNCHANGED <<calc_fn, calc_args, calc_ret, app, legacy, raw, fs>>

\* mutant: the result dict and the sets outlive the call (module-level
\* state) and are not reset
Enter_KeepState ==
    /\ pc = "call"
    /\ pc' = "pass1"
    /\ i' = 1
    /\ calls' = [calls EXCEPT !.allocated = @ + 1, !.result_id = @ + 1]
    /\ UNCHANGED <<result, complete_tickets, partial_tickets,
                   missing_tickets>>
    /\ UNCHANGED <<df, discipline_mapping>>
    /\ UNCHANGED raised
    /\ calcUnchanged

\* mutant: one result dict is cleared and reused by every call
Enter_SharedResult ==
    /\ pc = "call"
    /\ pc' = "pass1"
    /\ i' = 1
    /\ result' = InitialResult
    /\ complete_tickets' = {}
    /\ partial_tickets' = {}
    /\ missing_tickets' = {}
    /\ calls' = [calls EXCEPT !.result_id = 1]
    /\ UNCHANGED <<df, discipline_mapping>>
    /\ UNCHANGED raised
    /\ calcUnchanged

\* lines 75-91: the fresh result dict and the three empty sets
Enter ==
    /\ pc = "call"
    /\ pc' = "pass1"
    /\ i' = 1
    /\ result' = InitialResult
    /\ complete_tickets' = {}
    /\ partial_tickets' = {}
    /\ missing_tickets' = {}
    /\ calls' = [calls EXCEPT !.allocated = @ + 1, !.result_id = @ + 1]
    /\ UNCHANGED <<df, discipline_mapping>>
    /\ UNCHANGED raised
    /\ calcUnchanged

\* lines 94-149: the first pass handles row i
FirstPassRow ==
    /\ pc = "pass1"
    /\ i <= Len(df)
    /\ RowRaises1(df[i], discipline_mapping) = NoException
    /\ LET acc == CategorizeRow([complete |-> complete_tickets,
                                 partial |-> partial_tickets,
                                 missing |-> missing_tickets,
                                 details |-> result["Missing Data Details"]],
                                df[i], discipline_mapping)
       IN  /\ complete_tickets' = acc.complete
           /\ partial_tickets' = acc.partial
           /\ missing_tickets' = acc.missing
           /\ result' = [result EXCEPT !["Missing Data Details"] = acc.details]
    /\ i' = i + 1
    /\ UNCHANGED <<df, discipline_mapping, pc>>
    /\ UNCHANGED raised
    /\ calcUnchanged
    /\ UNCHANGED calls

\* lines 100-135: the first pass raises on row i; the key of a partial row
\* is already in partial_tickets (line 109) when float() raises
FirstPassRaise ==
    /\ pc = "pass1"
    /\ i <= Len(df)
    /\ RowRaises1(df[i], discipline_mapping) # NoException
    /\ raised' = RowRaises1(df[i], discipline_mapping)
    /\ partial_tickets' =
          IF raised' = ValueError
          THEN partial_tickets \cup {df[i]["Key"]} ELSE partial_tickets
    /\ pc' = "raised"
    /\ UNCHANGED <<df, discipline_mapping, i, complete_tickets,
                   missing_tickets, result>>
    /\ calcUnchanged
    /\ UNCHANGED calls

\* the first loop is exhausted; the second starts
FirstPassDone ==
    /\ pc = "pass1"
    /\ i > Len(df)
    /\ pc' = "pass2"
    /\ i' = 1
    /\ UNCHANGED <<df, discipline_mapping, complete_tickets, partial_tickets,
                   missing_tickets, result>>
    /\ UNCHANGED raised
    /\ calcUnchanged
    /\ UNCHANGED calls

\* lines 152-160: the second pass handles row i
SecondPassRow ==
    /\ pc = "pass2"
    /\ i <= Len(df)
    /\ RowRaises2(df[i], discipline_mapping, complete_tickets) = NoException
    /\ result' = SumRow(result, df[i], discipline_mapping, complete_tickets)
    /\ i' = i + 1
    /\ UNCHANGED <<df, discipline_mapping, pc, complete_tickets,
                   partial_tickets, missing_tickets>>
    /\ UNCHANGED raised
    /\ calcUnchanged
    /\ UNCHANGED calls

\* lines 158-160: the second pass raises on row i
SecondPassRaise ==
    /\ pc = "pass2"
    /\ i <= Len(df)
    /\ RowRaises2(df[i], discipline_mapping, complete_tickets) # NoException
    /\ raised' = RowRaises2(df[i], discipline_mapping, complete_tickets)
    /\ pc' = "raised"
    /\ UNCHANGED <<df, discipline_mapping, i, complete_tickets,
                   partial_tickets, missing_tickets, result>>
    /\ calcUnchanged
    /\ UNCHANGED calls

\* lines 162-177: counts, improvements, return
Return ==
    /\ pc = "pass2"
    /\ i > Len(df)
    /\ result' = Finish(result, complete_tickets, partial_tickets,
                        missing_tickets)
    /\ pc' = "returned"
    /\ calls' = [calls EXCEPT
                   !.returns = Append(@, [id |-> calls.result_id,
                                          value |-> result'])]
    /\ UNCHANGED <<df, discipline_mapping, i, complete_tickets,
                   partial_tickets, missing_tickets>>
    /\ UNCHANGED raised
    /\ calcUnchanged

processUnchanged ==
    UNCHANGED <<df, discipline_mapping, i, complete_tickets, partial_tickets,
                missing_tickets, result, raised, raw, calls, fs>>

callsUnchanged ==
    /\ processUnchanged
    /\ UNCHANGED <<calc_fn, calc_args, calc_ret>>

\* calculate_percentage_diff(original, actual) called on its own
CallPercentageDiff ==
    /\ pc = "calc"
    /\ pc' = "calc_done"
    /\ calc_fn' = "calculate_percentage_diff"
    /\ calc_ret' = [value |-> calculate_percentage_diff(calc_args[1],
                                                        calc_args[3])]
    /\ UNCHANGED <<calc_args, app, legacy>>
    /\ processUnchanged

\* calculate_improvement(original_total, ai_total, actual_total) called on
\* its own
CallImprovement ==
    /\ pc = "calc"
    /\ pc' = "calc_done"
    /\ calc_fn' = "calculate_improvement"
    /\ calc_ret' = calculate_improvement(calc_args[1], calc_args[2],
                                         calc_args[3])
    /\ UNCHANGED <<calc_args, app, legacy>>
    /\ processUnchanged

\* app.py lines 92-96
AppStart ==
    /\ pc = "app"
    /\ pc' = "app_loop"
    /\ app' = [app EXCEPT
                 !.total_unique_tickets =
                     Cardinality({df[j]["Key"] : j \in DOMAIN df}),
                 !.analysis_results = <<>>,
                 !.all_missing_data = <<>>]
    /\ UNCHANGED legacy
    /\ callsUnchanged

\* app.py lines 98-112: one discipline is processed, the totals are set
\* and the result is appended to analysis_results
AppProcess ==
    /\ pc = "app_loop"
    /\ app.k <= Len(disciplines)
    /\ LET discipline == disciplines[app.k]
           discipline_data ==
               process_discipline_data(df, column_mapping[discipline])
       IN  app' = [app EXCEPT
                     !.discipline_data = discipline_data,
                     !.total_original_estimate =
                         discipline_data["Original Estimate (Total)"],
                     !.total_ai_estimate =
                         discipline_data["AI Estimate (Total)"],
                     !.total_actual_time =
                         discipline_data["Actual Time (Total)"],
                     !.total_complete = discipline_data["Complete Data Points"],
                     !.total_partial = discipline_data["Partial Data Points"],
                     !.total_missing = discipline_data["Missing Data Points"],
                     !.analysis_results =
                         Append(@, ("Discipline" :> discipline)
                                   @@ discipline_data)]
    /\ pc' = "app_tag"
    /\ UNCHANGED legacy
    /\ callsUnchanged

\* app.py lines 114-117: every record of the result's detail list gets
\* the discipline and is collected; the list and its records are shared
\* with discipline_data and with the entry of analysis_results
AppTagDetails ==
    /\ pc = "app_tag"
    /\ LET discipline == disciplines[app.k]
           tagged == TagDetails(app.discipline_data["Missing Data Details"],
                                discipline)
       IN  app' = [app EXCEPT
                     !.discipline_data["Missing Data Details"] = tagged,
                     !.analysis_results[app.k]["Missing Data Details"] = tagged,
                     !.all_missing_data = @ \o tagged,
                     !.k = @ + 1]
    /\ pc' = "app_loop"
    /\ UNCHANGED legacy
    /\ callsUnchanged

\* app.py line 120: the loop is over
AppLoopDone ==
    /\ pc = "app_loop"
    /\ app.k > Len(disciplines)
    /\ pc' = "app_done"
    /\ UNCHANGED <<app, legacy>>
    /\ callsUnchanged

\* analyze_estimates.py lines 187-219: one discipline is processed and
\* added to the totals
LegacyProcess ==
    /\ pc = "legacy_loop"
    /\ legacy.k <= Len(disciplines)
    /\ LET discipline == disciplines[legacy.k]
           discipline_data ==
               legacy_process_discipline_data(df, column_mapping[discipline])
           diff_original ==
               legacy_calculate_percentage_diff(
                   discipline_data["Original Estimate (Total)"],
                   discipline_data["Actual Time (Total)"])
           diff_ai ==
               legacy_calculate_percentage_diff(
                   discipline_data["AI Estimate (Total)"],
                   discipline_data["Actual Time (Total)"])
       IN  legacy' = [legacy EXCEPT
              !.discipline_data = discipline_data,
              !.total_original_estimate =
                  FAdd(@, discipline_data["Original Estimate (Total)"]),
              !.total_ai_estimate =
                  FAdd(@, discipline_data["AI Estimate (Total)"]),
              !.total_actual_time =
                  FAdd(@, discipline_data["Actual Time (Total)"]),
              !.total_complete_tickets =
                  @ + discipline_data["Complete Data Points"],
              !.total_incomplete_tickets =
                  @ + discipline_data["Missing Data Points"],
              !.analysis_results = Append(@,
                  [Discipline |-> discipline,
                   CompleteDataPoints |-> discipline_data["Complete Data Points"],
                   MissingDataPoints |-> discipline_data["Missing Data Points"],
                   OriginalEstimateTotal |->
                       Round2(discipline_data["Original Estimate (Total)"]),
                   AiEstimateTotal |->
                       Round2(discipline_data["AI Estimate (Total)"]),
                   ActualTimeTotal |->
                       Round2(discipline_data["Actual Time (Total)"]),
                   DiffFromOriginal |-> Round2(diff_original),
                   DiffFromAi |-> Round2(diff_ai)]),
              !.k = @ + 1]
    /\ UNCHANGED <<pc, app>>
    /\ callsUnchanged

\* analyze_estimates.py lines 221-228: the loop is over, the overall
\* completion rate is computed
LegacyLoopDone ==
    /\ pc = "legacy_loop"
    /\ legacy.k > Len(disciplines)
    /\ legacy' = [legacy EXCEPT !.overall_completion_rate =
                     overall_completion_rate(legacy.total_complete_tickets,
                                             legacy.total_incomplete_tickets)]
    /\ pc' = "legacy_done"
    /\ UNCHANGED app
    /\ callsUnchanged

\* app.py lines 120-126: the frame of the results and its
\* "Actual vs Original (%)" column
AppFrame ==
    /\ pc = "app_done"
    /\ pc' = "app_frame"
    /\ app' = [app EXCEPT !.actual_vs_original =
                 [k \in DOMAIN app.analysis_results |->
                     ActualVsOriginal(app.analysis_results[k])]]
    /\ UNCHANGED legacy
    /\ callsUnchanged

\* app.py line 46: the sheet is filtered, "Process Analysis" follows
LoadApp ==
    /\ pc = "load"
    /\ df' = KeepKeyed(raw)
    /\ pc' = "app"
    /\ UNCHANGED <<discipline_mapping, i, complete_tickets, partial_tickets,
                   missing_tickets, result, raised, raw, calls, fs>>
    /\ UNCHANGED <<calc_fn, calc_args, calc_ret, app, legacy>>

\* analyze_estimates.py line 37: the sheet is filtered, the loop follows
LoadLegacy ==
    /\ pc = "load"
    /\ df' = KeepKeyed(raw)
    /\ pc' = "legacy_loop"
    /\ UNCHANGED <<discipline_mapping, i, complete_tickets, partial_tickets,
                   missing_tickets, result, raised, raw, calls, fs>>
    /\ UNCHANGED <<calc_fn, calc_args, calc_ret, app, legacy>>

\* process_discipline_data is called once more on the same table and
\* mapping; the finished call's locals are garbage until Enter rebinds them
CallAgain ==
    /\ pc = "returned"
    /\ Len(calls.returns) < 2
    /\ pc' = "call"
    /\ UNCHANGED <<df, discipline_mapping, i, complete_tickets,
                   partial_tickets, missing_tickets, result, raised, raw,
                   calls, fs>>
    /\ UNCHANGED <<calc_fn, calc_args, calc_ret, app, legacy>>

\* the legacy process_discipline_data is called on the table and mapping
\* the canonical one has just returned from
LegacyCall ==
    /\ pc = "returned"
    /\ pc' = "legacy_returned"
    /\ legacy' = [legacy EXCEPT !.discipline_data =
                    legacy_process_discipline_data(df, discipline_mapping)]
    /\ UNCHANGED app
    /\ callsUnchanged

\* utils.find_input_file()
FindInputFile ==
    /\ pc = "util"
    /\ \E o \in find_input_file(fs.input) :
          /\ raised' = o.raised
          /\ fs' = [fs EXCEPT !.fn = "find_input_file", !.ncalls = 1,
                              !.ret = o.ret]
          /\ pc' = IF o.raised = NoException THEN "util_done"
                   ELSE "util_raised"
    /\ UNCHANGED <<df, discipline_mapping, i, complete_tickets,
                   partial_tickets, missing_tickets, result, raw, calls>>
    /\ UNCHANGED <<calc_fn, calc_args, calc_ret, app, legacy>>

\* utils.ensure_directory(directory), a first and a second time
EnsureDirectory ==
    /\ pc \in {"util", "util_done"}
    /\ fs.fn \in {"none", "ensure_directory"}
    /\ fs.ncalls < 2
    /\ LET o == ensure_directory(fs.directory)
       IN  /\ raised' = o.raised
           /\ fs' = [fs EXCEPT !.fn = "ensure_directory",
                               !.ncalls = @ + 1,
                               !.directory = o.directory]
           /\ pc' = IF o.raised = NoException THEN "util_done"
                    ELSE "util_raised"
    /\ UNCHANGED <<df, discipline_mapping, i, complete_tickets,
                   partial_tickets, missing_tickets, result, raw, calls>>
    /\ UNCHANGED <<calc_fn, calc_args, calc_ret, app, legacy>>

Next ==
    \/ Enter
    \/ FirstPassRow
    \/ FirstPassRaise
    \/ FirstPassDone
    \/ SecondPassRow
    \/ SecondPassRaise
    \/ Return
    \/ CallPercentageDiff
    \/ CallImprovement
    \/ AppStart
    \/ AppProcess
    \/ AppTagDetails
    \/ AppLoopDone
    \/ LegacyProcess
    \/ LegacyLoopDone
    \/ AppFrame
    \/ LoadApp
    \/ LoadLegacy
    \/ CallAgain
    \/ LegacyCall
    \/ FindInputFile
    \/ EnsureDirectory

Spec == Init /\ [][Next]_vars

\* ================================================================= claims
\* what the table says, read off the cells without the code's helpers
Present(row, m) ==
    {f \in {"original", "ai", "actual"} : row[m[f]] # NaN}

AllKeys == {df[j]["Key"] : j \in DOMAIN df}

\* the first pass is at a row whose mapped columns exist
InFirstPass ==
    pc = "pass1" /\ i <= Len(df) /\ Resolvable(df[i], discipline_mapping)

\* sum of the column m[f] over the rows of t that have all three fields
RECURSIVE SumOverCompleteRows(_, _, _)
SumOverCompleteRows(t, m, f) ==
    IF t = <<>> THEN Zero
    ELSE LET rest == SumOverCompleteRows(Tail(t), m, f)
         IN  IF Present(Head(t), m) = {"original", "ai", "actual"}
             THEN FAdd(Head(t)[m[f]], rest)
             ELSE rest

\* C1: once process_discipline_data has returned, the Complete, Partial and
\* Missing key sets are pairwise disjoint, their union is the set of ticket
\* keys of the table, and the three counts add up to the number of unique
\* keys.
C1_BucketsPartitionKeys ==
    pc = "returned" =>
        /\ complete_tickets \cap partial_tickets = {}
        /\ complete_tickets \cap missing_tickets = {}
        /\ partial_tickets \cap missing_tickets = {}
        /\ complete_tickets \cup partial_tickets \cup missing_tickets = AllKeys
        /\ result["Complete Data Points"] + result["Partial Data Points"]
             + result["Missing Data Points"] = Cardinality(AllKeys)

\* C2: every step of the first pass puts the key of the row it handles in
\* Complete iff all three fields of the row are present, in Missing iff
\* none is, and in Partial iff one or two are; it puts the key nowhere else.
C2_BucketAssignment ==
    [][InFirstPass =>
         LET k == df[i]["Key"]
             n == Cardinality(Present(df[i], discipline_mapping))
         IN  /\ complete_tickets' =
                   complete_tickets \cup (IF n = 3 THEN {k} ELSE {})
             /\ missing_tickets' =
                   missing_tickets \cup (IF n = 0 THEN {k} ELSE {})
             /\ partial_tickets' =
                   partial_tickets \cup (IF n \in {1, 2} THEN {k} ELSE {})]_vars

\* C2 witness: the first pass is over a table with a complete row and a
\* partial row of different tickets, each key in its bucket
C2_Witness ==
    /\ pc = "pass2"
    /\ Len(df) = 2
    /\ df[1]["Key"] # df[2]["Key"]
    /\ Cardinality(Present(df[1], discipline_mapping)) = 3
    /\ Cardinality(Present(df[2], discipline_mapping)) = 2
    /\ complete_tickets = {df[1]["Key"]}
    /\ partial_tickets = {df[2]["Key"]}
    /\ missing_tickets = {}

\* C3: the three totals returned are the sums of the respective column over
\* exactly the rows that have all three fields; a row that is Partial or
\* Missing adds nothing to any total.
C3_TotalsOverCompleteOnly ==
    pc = "returned" =>
        /\ result["Original Estimate (Total)"] =
              SumOverCompleteRows(df, discipline_mapping, "original")
        /\ result["AI Estimate (Total)"] =
              SumOverCompleteRows(df, discipline_mapping, "ai")
        /\ result["Actual Time (Total)"] =
              SumOverCompleteRows(df, discipline_mapping, "actual")

\* C4: a result returned with Complete Data Points = 0 has all three totals
\* and all three percentages equal to 0.
C4_NoCompleteAllZero ==
    (pc = "returned" /\ result["Complete Data Points"] = 0) =>
        /\ result["Original Estimate (Total)"] = Zero
        /\ result["AI Estimate (Total)"] = Zero
        /\ result["Actual Time (Total)"] = Zero
        /\ result["Original vs Actual (%)"] = Zero
        /\ result["AI vs Actual (%)"] = Zero
        /\ result["Estimation Improvement (%)"] = Zero

\* C4 witness: a result with no complete ticket and a partial ticket that
\* holds nonzero hours
C4_Witness ==
    /\ pc = "returned"
    /\ result["Complete Data Points"] = 0
    /\ result["Partial Data Points"] > 0
    /\ \E j \in DOMAIN df :
          \E f \in Present(df[j], discipline_mapping) :
             df[j][discipline_mapping[f]] # Zero

Called(fn) == pc = "calc_done" /\ calc_fn = fn

\* (x - y) / d * 100 for finite x, y and finite nonzero d, as one fraction
PctOf(x, y, d) ==
    Rat(100 * (x[1] * y[2] - y[1] * x[2]) * d[2], x[2] * y[2] * d[1])

\* C6: calculate_percentage_diff(original, actual) returns
\* ((actual - original) / original) * 100 when original is present and
\* nonzero (and actual is present), returns 0 when original is null or zero
\* or actual is null, and never raises a division by zero.
C6_PercentageDiff ==
    Called("calculate_percentage_diff") =>
        LET original == calc_args[1]
            actual == calc_args[3]
        IN  /\ calc_ret.value # ZeroDivisionError
            /\ (original # NaN /\ original[1] # 0 /\ actual # NaN) =>
                  calc_ret.value = PctOf(actual, original, original)
            /\ (original = NaN \/ original[1] = 0 \/ actual = NaN) =>
                  calc_ret.value = Zero

\* C6 witness: calculate_percentage_diff(2, 3) has returned 50
C6_Witness ==
    /\ Called("calculate_percentage_diff")
    /\ calc_args[1] = FromInt(2)
    /\ calc_args[3] = FromInt(3)
    /\ calc_ret.value = FromInt(50)

\* C7: calculate_improvement returns 0 for all three outputs whenever
\* original_total == 0 or actual_total == 0, whatever ai_total is, and
\* raises no division by zero.
C7_ZeroBaseline ==
    (Called("calculate_improvement") /\
     (calc_args[1] = Zero \/ calc_args[3] = Zero)) =>
        /\ calc_ret.original_vs_actual = Zero
        /\ calc_ret.ai_vs_actual = Zero
        /\ calc_ret.overall_improvement = Zero

\* C7 witness: a call with actual_total = 0 and the other two totals
\* nonzero has returned three zeros
C7_Witness ==
    /\ Called("calculate_improvement")
    /\ calc_args[3] = Zero
    /\ IsFinite(calc_args[1]) /\ calc_args[1] # Zero
    /\ IsFinite(calc_args[2]) /\ calc_args[2] # Zero
    /\ calc_ret.overall_improvement = Zero
    /\ calc_ret.original_vs_actual = Zero

\* C8: with original_total and actual_total both nonzero,
\* original_vs_actual = ((original_total - actual_total) / actual_total) * 100
\* and ai_vs_actual = ((ai_total - actual_total) / actual_total) * 100;
\* each is positive for an overestimate and negative for an underestimate.
C8_Deviations ==
    (Called("calculate_improvement") /\
     IsFinite(calc_args[1]) /\ calc_args[1] # Zero /\
     IsFinite(calc_args[3]) /\ calc_args[3] # Zero) =>
        LET o == calc_args[1]
            a == calc_args[2]
            t == calc_args[3]
        IN  /\ calc_ret.original_vs_actual = PctOf(o, t, t)
            /\ calc_ret.ai_vs_actual = IF a = NaN THEN NaN ELSE PctOf(a, t, t)
            /\ FGt(o, t) <=> calc_ret.original_vs_actual[1] > 0
            /\ FLt(o, t) <=> calc_ret.original_vs_actual[1] < 0
            /\ FGt(a, t) <=> calc_ret.ai_vs_actual[1] > 0
            /\ FLt(a, t) <=> calc_ret.ai_vs_actual[1] < 0

\* C8 witness: calculate_improvement(3, 1, 2) has returned +50 and -50
C8_Witness ==
    /\ Called("calculate_improvement")
    /\ calc_args = <<FromInt(3), FromInt(1), FromInt(2)>>
    /\ calc_ret.original_vs_actual = FromInt(50)
    /\ calc_ret.ai_vs_actual = FromInt(-50)

\* the share of the original's error that the AI estimate removed,
\* (|o - t| - |a - t|) / |o - t| * 100, for finite o, a, t with o # t
ErrorShare(o, a, t) ==
    FMul(FDiv(FSub(FAbs(FSub(o, t)), FAbs(FSub(a, t))), FAbs(FSub(o, t))),
         Hundred)

Clamp(v, lo, hi) == IF FLt(v, lo) THEN lo ELSE IF FGt(v, hi) THEN hi ELSE v

InZeroToHundred(x) == IsFinite(x) /\ x[1] >= 0 /\ x[1] <= 100 * x[2]

\* C9: when original_error is nonzero, overall_improvement is
\* ((original_error - ai_error) / original_error) * 100 clamped into
\* [0, 100]: 0 whenever ai_error >= original_error and never above 100;
\* and Estimation Improvement (%) of every returned result is in [0, 100].
C9_ImprovementClamped ==
    /\ (Called("calculate_improvement") /\
        IsFinite(calc_args[1]) /\ calc_args[1] # Zero /\
        IsFinite(calc_args[2]) /\
        IsFinite(calc_args[3]) /\ calc_args[3] # Zero /\
        calc_args[1] # calc_args[3]) =>
           LET o == calc_args[1]
               a == calc_args[2]
               t == calc_args[3]
           IN  /\ calc_ret.overall_improvement =
                     Clamp(ErrorShare(o, a, t), Zero, Hundred)
               /\ InZeroToHundred(calc_ret.overall_improvement)
               /\ FGe(FAbs(FSub(a, t)), FAbs(FSub(o, t))) =>
                     calc_ret.overall_improvement = Zero
    /\ pc = "returned" => InZeroToHundred(result["Estimation Improvement (%)"])

\* C9 witness: calculate_improvement(1, 0, 2), where the AI estimate is
\* further from the actual than the original, has returned improvement 0
C9_Witness ==
    /\ Called("calculate_improvement")
    /\ calc_args = <<FromInt(1), FromInt(0), FromInt(2)>>
    /\ calc_ret.original_vs_actual = FromInt(-50)
    /\ calc_ret.ai_vs_actual = FromInt(-100)
    /\ calc_ret.overall_improvement = Zero

\* C10: when original_total equals actual_total and both are nonzero,
\* overall_improvement is 0 for every ai_total, ai_total = actual_total
\* included.
C10_PerfectOriginal ==
    (Called("calculate_improvement") /\
     IsFinite(calc_args[1]) /\ calc_args[1] # Zero /\
     calc_args[1] = calc_args[3]) =>
        calc_ret.overall_improvement = Zero

\* C10 witness: calculate_improvement(2, 2, 2) has returned improvement 0
C10_Witness ==
    /\ Called("calculate_improvement")
    /\ calc_args = <<FromInt(2), FromInt(2), FromInt(2)>>
    /\ calc_ret.overall_improvement = Zero

\* C11: when ai_total equals actual_total, actual_total is nonzero and
\* original_total is nonzero and differs from actual_total,
\* calculate_improvement returns ai_vs_actual = 0 and
\* overall_improvement = 100.
C11_PerfectAi ==
    (Called("calculate_improvement") /\
     IsFinite(calc_args[3]) /\ calc_args[3] # Zero /\
     calc_args[2] = calc_args[3] /\
     IsFinite(calc_args[1]) /\ calc_args[1] # Zero /\
     calc_args[1] # calc_args[3]) =>
        /\ calc_ret.ai_vs_actual = Zero
        /\ calc_ret.overall_improvement = Hundred

\* C11 witness: calculate_improvement(3, 2, 2) has returned improvement 100
C11_Witness ==
    /\ Called("calculate_improvement")
    /\ calc_args = <<FromInt(3), FromInt(2), FromInt(2)>>
    /\ calc_ret.original_vs_actual = FromInt(50)
    /\ calc_ret.ai_vs_actual = Zero
    /\ calc_ret.overall_improvement = Hundred

\* C19: if the mapping names a column the table does not have,
\* process_discipline_data never returns a result, whatever the table,
\* the empty table included.
C19_UnknownColumnFails ==
    pc = "returned" => MappedColumns(discipline_mapping) \subseteq TableColumns

\* C20: if a present original, ai or actual value cannot be converted to a
\* number, process_discipline_data returns no result, and the error it
\* fails with identifies the ticket key and the field.
C20_BadValueNamed ==
    /\ pc = "returned" =>
          \A j \in DOMAIN df :
             Resolvable(df[j], discipline_mapping) =>
                \A c \in MappedColumns(discipline_mapping) : CanFloat(df[j][c])
    /\ (pc = "raised" /\ raised.type = "ValueError") =>
          {"ticket", "field"} \subseteq raised.names

\* the permutations of 1..n and the table t with its rows reordered by f
Perms(n) == {f \in [1..n -> 1..n] : \A a, b \in 1..n : f[a] = f[b] => a = b}

Permute(t, f) == [j \in 1..Len(t) |-> t[f[j]]]

\* the two sequences hold the same elements the same number of times
SameBag(a, b) ==
    /\ Len(a) = Len(b)
    /\ \A x \in {a[j] : j \in DOMAIN a} \cup {b[j] : j \in DOMAIN b} :
          Cardinality({j \in DOMAIN a : a[j] = x}) =
          Cardinality({j \in DOMAIN b : b[j] = x})

ScalarFields == DOMAIN InitialResult \ {"Missing Data Details"}

\* C12: the result returned for the table equals, in every field including
\* the Missing Data Details sequence, the result for every permutation of
\* the table's rows.
C12_PermutationSameResult ==
    pc = "returned" =>
        \A f \in Perms(Len(df)) :
           process_discipline_data(Permute(df, f), discipline_mapping) = result

\* C12 (amended): for every permutation of the rows the three counts, the
\* three totals and the three percentages are the same, and the Missing
\* Data Details hold the same records, possibly in another order.
C12_PermutationSameUpToDetailOrder ==
    pc = "returned" =>
        \A f \in Perms(Len(df)) :
           LET r == process_discipline_data(Permute(df, f), discipline_mapping)
           IN  /\ \A x \in ScalarFields : r[x] = result[x]
               /\ SameBag(r["Missing Data Details"],
                          result["Missing Data Details"])

\* C12 witness: a result for two different rows, a complete one and a
\* partial one, so that the other row order exists and differs
C12_Witness ==
    /\ pc = "returned"
    /\ Len(df) = 2
    /\ df[1] # df[2]
    /\ result["Complete Data Points"] = 1
    /\ result["Original Estimate (Total)"] # Zero
    /\ Len(result["Missing Data Details"]) = 1

\* the rows of t with one or two of the three fields present, in row order
PartialRows(t, m) ==
    LET IsPartial(row) == Cardinality(Present(row, m)) \in {1, 2}
    IN  SelectSeq(t, IsPartial)

Range(q) == {q[j] : j \in DOMAIN q}

KindLabel ==
    [original |-> "Original Estimate", ai |-> "AI Estimate",
     actual |-> "Actual Time"]

C16_OneRecordPerPartialTicket ==
    pc = "returned" =>
        LET details == result["Missing Data Details"]
        IN  /\ Len(details) = result["Partial Data Points"]
            /\ {details[j].Ticket : j \in DOMAIN details} = partial_tickets
            /\ \A j \in DOMAIN details :
                  details[j].Ticket \notin complete_tickets \cup missing_tickets

\* C17: the tickets of the Missing Data Details records are the keys of
\* the partial rows in the order of the rows in the table.
C17_DetailsInRowOrder ==
    pc = "returned" =>
        LET details == result["Missing Data Details"]
            rows == PartialRows(df, discipline_mapping)
        IN  [j \in DOMAIN details |-> details[j].Ticket] =
            [j \in DOMAIN rows |-> rows[j]["Key"]]

\* C17 witness: two partial rows of different tickets and their two
\* records in the rows' order
C17_Witness ==
    /\ pc = "returned"
    /\ Len(df) = 2
    /\ df[1]["Key"] # df[2]["Key"]
    /\ Len(result["Missing Data Details"]) = 2
    /\ result["Missing Data Details"][1].Ticket = df[1]["Key"]
    /\ result["Missing Data Details"][2].Ticket = df[2]["Key"]

\* C18: the Assignee of every Missing Data Details record is the row's
\* assignee when the row has one, and "Unassigned" when the table has no
\* Assignee column or the row's Assignee cell is empty.
C18_AssigneeOrUnassigned ==
    pc = "returned" =>
        LET details == result["Missing Data Details"]
            rows == PartialRows(df, discipline_mapping)
        IN  \A j \in DOMAIN details :
               details[j].Assignee =
                   IF "Assignee" \in DOMAIN rows[j]
                      /\ rows[j]["Assignee"] # NullCell
                   THEN rows[j]["Assignee"]
                   ELSE "Unassigned"

\* the sum of a field over a sequence of per-discipline results
RECURSIVE SumField(_, _)
SumField(results, field) ==
    IF results = <<>> THEN Zero
    ELSE FAdd(Head(results)[field], SumField(Tail(results), field))

RECURSIVE SumCount(_, _)
SumCount(results, field) ==
    IF results = <<>> THEN 0
    ELSE Head(results)[field] + SumCount(Tail(results), field)

\* the per-discipline results of the legacy script, in any order
LegacyResults(order) ==
    [k \in DOMAIN order |->
        legacy_process_discipline_data(df, column_mapping[order[k]])]

\* C13: after every discipline is processed, the driver's totals (original,
\* AI and actual hours, complete, partial and missing counts) are the sums
\* of the fields over the per-discipline results, in whichever order the
\* disciplines are taken.
C13_TotalsAreSums ==
    /\ pc = "app_done" =>
          /\ app.total_original_estimate =
                 SumField(app.analysis_results, "Original Estimate (Total)")
          /\ app.total_ai_estimate =
                 SumField(app.analysis_results, "AI Estimate (Total)")
          /\ app.total_actual_time =
                 SumField(app.analysis_results, "Actual Time (Total)")
          /\ app.total_complete =
                 SumCount(app.analysis_results, "Complete Data Points")
          /\ app.total_partial =
                 SumCount(app.analysis_results, "Partial Data Points")
          /\ app.total_missing =
                 SumCount(app.analysis_results, "Missing Data Points")
    /\ pc = "legacy_done" =>
          \A order \in {disciplines, <<disciplines[2], disciplines[1]>>} :
             LET results == LegacyResults(order)
             IN  /\ legacy.total_original_estimate =
                        SumField(results, "Original Estimate (Total)")
                 /\ legacy.total_ai_estimate =
                        SumField(results, "AI Estimate (Total)")
                 /\ legacy.total_actual_time =
                        SumField(results, "Actual Time (Total)")
                 /\ legacy.total_complete_tickets =
                        SumCount(results, "Complete Data Points")
                 /\ legacy.total_incomplete_tickets =
                        SumCount(results, "Missing Data Points")

\* the (row, discipline) pairs of the table whose original estimate is
\* present, and those of them whose three values are all present
EstimatedPairs ==
    {<<j, d>> \in (DOMAIN df) \X Disciplines :
        notna(df[j][column_mapping[d].original])}

CompletePairs ==
    {<<j, d>> \in EstimatedPairs :
        /\ notna(df[j][column_mapping[d].ai])
        /\ notna(df[j][column_mapping[d].actual])}

\* C14 as stated: the overall completion rate is total_complete divided by
\* the number of distinct ticket keys, times 100, and 0 without tickets.
C14_RateOverUniqueTickets ==
    pc = "legacy_done" =>
        legacy.overall_completion_rate =
            IF AllKeys = {} THEN Zero
            ELSE FMul(FDiv(FromInt(legacy.total_complete_tickets),
                           FromInt(Cardinality(AllKeys))),
                      Hundred)

\* C14 amended: the overall completion rate is 100 times the number of
\* (row, discipline) pairs with all three values present, divided by the
\* number of (row, discipline) pairs with the original estimate present,
\* and 0 when no pair has an original estimate.
C14_RateOverEstimatedPairs ==
    pc = "legacy_done" =>
        legacy.overall_completion_rate =
            IF EstimatedPairs = {} THEN Zero
            ELSE Rat(100 * Cardinality(CompletePairs),
                     Cardinality(EstimatedPairs))

\* C14 witness: a row that is complete in one discipline and has no
\* original estimate in the other, so the rate is 100
C14_Witness ==
    /\ pc = "legacy_done"
    /\ Cardinality(CompletePairs) = 1
    /\ Cardinality(EstimatedPairs) = 1
    /\ legacy.overall_completion_rate = Hundred

OtherColumns(m) == WideColumns \ MappedColumns(m)

Replaced(t, m, c) ==
    [j \in DOMAIN t |->
        [x \in DOMAIN t[j] |->
            IF x \in OtherColumns(m) THEN c[j][x] ELSE t[j][x]]]

\* C22: the result process_discipline_data returned for a discipline is
\* the one it returns for every table that agrees with df on Key, Assignee
\* and the discipline's three columns, whatever the other disciplines'
\* columns hold and wherever the discipline comes in the order.
C22_OtherDisciplinesIgnored ==
    pc = "app_tag" =>
        LET m == column_mapping[disciplines[app.k]]
        IN  \A c \in [DOMAIN df -> [OtherColumns(m) -> {NaN, FromInt(MaxVal)}]] :
               process_discipline_data(Replaced(df, m, c), m) =
                   app.discipline_data

\* C22 witness: the second discipline in the order has been processed on a
\* row that is complete for the first and partial for the second
C22_Witness ==
    /\ pc = "app_tag"
    /\ app.k = 2
    /\ Len(df) >= 1
    /\ app.analysis_results[1]["Complete Data Points"] = 1
    /\ app.discipline_data["Partial Data Points"] = 1

\* C23: the second call of process_discipline_data on the same table and
\* mapping returns a result equal to the first call's in every field.
C23_SecondRunEqual ==
    Len(calls.returns) = 2 =>
        /\ DOMAIN calls.returns[2].value = DOMAIN calls.returns[1].value
        /\ \A f \in DOMAIN calls.returns[1].value :
              calls.returns[2].value[f] = calls.returns[1].value[f]

\* C23 witness: both runs returned a result with a complete ticket, a
\* detail record and non-zero totals
C23_Witness ==
    /\ Len(calls.returns) = 2
    /\ calls.returns[2].value["Complete Data Points"] = 1
    /\ Len(calls.returns[2].value["Missing Data Details"]) = 1
    /\ calls.returns[2].value["Actual Time (Total)"] # Zero

\* the steps of process_discipline_data
InProcess == pc \in {"call", "pass1", "pass2"}

\* C24: no step of process_discipline_data changes the ticket table or the
\* mapping, and the result structure a call returns was allocated by that
\* call: no two calls return the same one.
C24_InputsUntouchedResultFresh ==
    [][/\ InProcess => UNCHANGED <<df, discipline_mapping>>
       /\ \A a, b \in DOMAIN calls.returns' :
             a # b => calls.returns'[a].id # calls.returns'[b].id]_vars

\* C24 witness: two calls have returned for a table with rows
C24_Witness ==
    /\ pc = "returned"
    /\ Len(calls.returns) = 2
    /\ Len(df) = MaxRows
    /\ df = raw

\* C25: once process_discipline_data has returned a result to the driver,
\* no later step changes it: the driver's discipline_data, and the entry
\* of analysis_results that holds its fields, stay as returned.
C25_ReturnedResultImmutable ==
    [][pc = "app_tag" =>
          /\ app.discipline_data' = app.discipline_data
          /\ app.analysis_results'[app.k] = app.analysis_results[app.k]]_vars

\* C26: once a loader has filtered the sheet, the table holds exactly the
\* sheet's rows whose Key is neither null nor the empty string, in the
\* sheet's order, and no other row.
C26_OnlyKeyedRows ==
    pc # "load" =>
        /\ \A j \in DOMAIN df : df[j]["Key"] \notin {NullKey, EmptyKey}
        /\ df = SelectSeq(raw, LAMBDA row :
                                  row["Key"] \notin {NullKey, EmptyKey})

\* C26 witness: a sheet with a keyed row, a row with a null key and a row
\* with an empty key somewhere, filtered and handed to a driver
C26_Witness ==
    /\ pc \in {"app_loop", "legacy_loop"}
    /\ Len(raw) = 2
    /\ Len(df) = 1
    /\ \E j \in DOMAIN raw : raw[j]["Key"] = EmptyKey

\* the sum of a column over the rows of a table
RECURSIVE SumColumn(_, _)
SumColumn(t, col) ==
    IF t = <<>> THEN Zero ELSE FAdd(Head(t)[col], SumColumn(Tail(t), col))

AllThree == {"original", "ai", "actual"}

\* C27: when every row has its three fields, the legacy
\* process_discipline_data returns Complete Data Points = the number of
\* rows, Missing Data Points = 0, and each total = the sum of its column.
C27_LegacyAllComplete ==
    (/\ pc = "legacy_returned"
     /\ \A j \in DOMAIN df : Present(df[j], discipline_mapping) = AllThree)
    => LET r == legacy.discipline_data
           m == discipline_mapping
       IN  /\ r["Complete Data Points"] = Len(df)
           /\ r["Missing Data Points"] = 0
           /\ Len(df) > 0 =>
                 /\ r["Original Estimate (Total)"] = SumColumn(df, m.original)
                 /\ r["AI Estimate (Total)"] = SumColumn(df, m.ai)
                 /\ r["Actual Time (Total)"] = SumColumn(df, m.actual)
           /\ Len(df) = 0 =>
                 /\ r["Original Estimate (Total)"] = Zero
                 /\ r["AI Estimate (Total)"] = Zero
                 /\ r["Actual Time (Total)"] = Zero

\* C27 witness: two rows with all three fields, the legacy totals non-zero
C27_Witness ==
    /\ pc = "legacy_returned"
    /\ Len(df) = 2
    /\ \A j \in DOMAIN df : Present(df[j], discipline_mapping) = AllThree
    /\ legacy.discipline_data["Complete Data Points"] = 2
    /\ legacy.discipline_data["AI Estimate (Total)"] = FromInt(2 * MaxVal)

\* the .xlsx files of the input directory, and the greatest of a set
XlsxFiles == {f \in DOMAIN fs.input : f.ext = "xlsx"}

Newest(files) == {g \in files : \A h \in files : fs.input[g] >= fs.input[h]}

VisibleXlsxFiles == {f \in XlsxFiles : ~f.dot}

C29_EnsureDirectoryIdempotent ==
    fs.fn = "ensure_directory" =>
        /\ raised = NoException => fs.directory = "dir"
        /\ fs.ncalls = 2 => raised = NoException /\ fs.directory = "dir"

\* C29 witness: the second call on a directory the first call created
C29_Witness ==
    /\ fs.fn = "ensure_directory"
    /\ fs.ncalls = 2
    /\ pc = "util_done"
    /\ fs.directory = "dir"

\* the rows that have an original estimate and lack another field
EstimatedOnlyRows(t, m) ==
    SelectSeq(t, LAMBDA row : /\ "original" \in Present(row, m)
                              /\ Present(row, m) # AllThree)

\* C30: on a table with unique keys the legacy and the canonical
\* process_discipline_data return the same Complete Data Points, AI total
\* and actual total; the legacy original total is the canonical one plus
\* the originals of the rows that have an original and are not complete,
\* and the legacy Missing Data Points is the number of those rows.
C30_LegacyVersusCanonical ==
    (/\ pc = "legacy_returned"
     /\ Cardinality(AllKeys) = Len(df))
    => LET old == legacy.discipline_data
           m == discipline_mapping
           rows == EstimatedOnlyRows(df, m)
       IN  /\ old["Complete Data Points"] = result["Complete Data Points"]
           /\ old["AI Estimate (Total)"] = result["AI Estimate (Total)"]
           /\ old["Actual Time (Total)"] = result["Actual Time (Total)"]
           /\ old["Original Estimate (Total)"] =
                 FAdd(result["Original Estimate (Total)"],
                      IF rows = <<>> THEN Zero
                      ELSE SumColumn(rows, m.original))
           /\ old["Missing Data Points"] = Len(rows)

\* C30 witness: a complete ticket and a ticket with its original only
C30_Witness ==
    /\ pc = "legacy_returned"
    /\ Len(df) = 2
    /\ Cardinality(AllKeys) = 2
    /\ result["Complete Data Points"] = 1
    /\ legacy.discipline_data["Missing Data Points"] = 1
    /\ legacy.discipline_data["Original Estimate (Total)"] =
          FromInt(2 * MaxVal)
    /\ result["Original Estimate (Total)"] = FromInt(MaxVal)

====
